---- MODULE Spec2Model ----
(***************************************************************************)
(* Foodgram backend: the relational store (Recipe, its tag associations,   *)
(* RecipeIngredient, Favourite, ShoppingCart, Follow) and the request      *)
(* handlers of api/serializers.py and api/views.py that write to it.       *)
(*                                                                         *)
(* Every handler is one action.  The store runs in Django's autocommit     *)
(* mode (no handler opens transaction.atomic), so a handler that raises    *)
(* after some of its ORM calls leaves the rows those calls wrote.          *)
(* Recipe fields no modelled handler reads (name, text, image, author,     *)
(* date) are left out of the Recipe row.                                   *)
(***************************************************************************)
EXTENDS Integers, Sequences, FiniteSets, Bags, TLC

(* ------------------------------ bounds -------------------------------- *)

\* Longest ingredient list a request carries.
MaxLen == 2
\* Ingredient amounts and cooking times a request carries (0 is invalid).
Amounts == 0..2
CookingTimes == 0..2

\* Primary keys the Recipe table may hand out in the recipe-write
\* specification and in the membership / shopping-cart specifications.
RecipeIds == {1}
CartRecipeIds == {1, 2}
\* A user id that names no row.
NoUser == "nobody"

Users == {"u1", "u2"}
Tags == {"t1", "t2"}

\* The Ingredient table (read-only through the API).  Ingredient carries no
\* uniqueness constraint: rows 1 and 2 share name and unit, row 3 shares only
\* the name.
Ingredients == {1, 2, 3}
IngredientRow ==
    [i \in Ingredients |->
        [name |-> "flour",
         measurement_unit |-> IF i = 3 THEN "kg" ELSE "g"]]

(* ------------------------------ helpers ------------------------------- *)

Range(s) == {s[k] : k \in DOMAIN s}

SeqsUpTo(S, n) == UNION {[1..k -> S] : k \in 0..n}

\* The bag of the elements of a sequence (one copy per occurrence).
RECURSIVE SeqToBag(_)
SeqToBag(s) ==
    IF s = <<>> THEN EmptyBag
    ELSE SeqToBag(Tail(s)) (+) SetToBag({Head(s)})

\* The rows of bag B that satisfy keep (a queryset filter, with copies).
Filter(B, keep(_)) == [r \in {x \in DOMAIN B : keep(x)} |-> B[r]]

(* ------------------------------- state -------------------------------- *)

VARIABLES
    db,     \* the database: one field per table, plus Recipe's pk sequence
    msg     \* the request being handled, then its response; Idle between

vars == <<db, msg>>

EmptyDb ==
    [Recipe |-> <<>>,               \* pk -> [cooking_time]
     nextId |-> 1,                  \* Recipe's auto-increment pk
     RecipeTags |-> {},             \* Recipe.tags through table: <<pk, tag>>
     RecipeIngredient |-> EmptyBag, \* rows [recipe, ingredient, amount]
     Favourite |-> EmptyBag,        \* rows <<user, recipe>>
     ShoppingCart |-> EmptyBag,     \* rows <<user, recipe>>
     Follow |-> EmptyBag]           \* rows <<user, author>>

RecipeExists(d, pk) == pk \in DOMAIN d.Recipe

TagsOf(d, pk) == {t \in Tags : <<pk, t>> \in d.RecipeTags}

QuantityOf(d, pk) == Filter(d.RecipeIngredient, LAMBDA r : r.recipe = pk)

(* ------------------- request data of a recipe write ------------------- *)

\* An ingredient id as it arrives in the JSON body: the number 1 or the
\* string "1".  Python compares them unequal; the primary-key lookup accepts
\* both.
RawId(kind, val) == [kind |-> kind, val |-> val]

WriteRawIds == {RawId("int", 1), RawId("str", 1), RawId("int", 2)}

IngredientItems(rawids) == [id : rawids, amount : Amounts]

\* initial_data: a mapping holding the submitted fields only.
RequestData(tagLists, ingLists, times) ==
    LET T == [tags : tagLists]
        G == [ingredients : ingLists]
        C == [cooking_time : times]
        Join(A, B) == {a @@ b : a \in A, b \in B}
    IN  Join(Join(T \cup {<<>>}, G \cup {<<>>}), C \cup {<<>>})

\* Tag lists: up to as many entries as there are tags, repeats included.
TagLists == SeqsUpTo(Tags, Cardinality(Tags))

WriteRequests ==
    RequestData(TagLists,
                SeqsUpTo(IngredientItems(WriteRawIds), MaxLen),
                CookingTimes)

(* --------------------------- serializers.py --------------------------- *)

\* PrimaryKeyRelatedField(queryset=Ingredient.objects.all()): the Ingredient
\* whose pk the raw value names, or no object.
IngredientPk(raw) == raw.val
IngredientFound(raw) == raw.val \in Ingredients

\* RecipeIngredientSerializer: id must name an Ingredient, amount >= 1.
MinAmount == 1

\* Mutant: min_value=0 on amount.
RecipeIngredientSerializer_valid_min0(item) ==
    /\ item.id.val \in Ingredients
    /\ item.amount >= 0

RecipeIngredientSerializer_valid(item) ==
    /\ IngredientFound(item.id)
    /\ item.amount >= MinAmount

\* RecipeIngredientSerializer.to_internal_value (id has source='ingredient').
RecipeIngredientSerializer_data(item) ==
    [ingredient |-> IngredientPk(item.id), amount |-> item.amount]

\* cooking_time = IntegerField(min_value=1)
MinCookingTime == 1
cooking_time_valid(t) == t >= MinCookingTime

\* The declared fields of RecipeCreateUpdateSerializer that fail field
\* validation.  A missing field is an error unless the serializer is partial
\* (PATCH).  Both list fields keep the default allow_empty=True.
FieldErrors(data, partial) ==
    {f \in {"tags", "ingredients", "cooking_time"} :
        IF f \notin DOMAIN data THEN ~partial
        ELSE CASE f = "tags" -> \E k \in DOMAIN data.tags : data.tags[k] \notin Tags
               [] f = "ingredients" ->
                     \E k \in DOMAIN data.ingredients :
                         ~RecipeIngredientSerializer_valid(data.ingredients[k])
               [] f = "cooking_time" -> ~cooking_time_valid(data.cooking_time)}

\* RecipeCreateUpdateSerializer.validate: reads the raw initial_data.
validate(data) ==
    IF "ingredients" \notin DOMAIN data
    THEN "TypeError"            \* iterating initial_data.get(...) = None
    ELSE LET ingredients_list ==
                 [k \in DOMAIN data.ingredients |-> data.ingredients[k].id]
         IN  IF Len(ingredients_list) # Cardinality(Range(ingredients_list))
             THEN "ValidationError"
             ELSE "ok"

\* Serializer.run_validation: field validation first, then validate().
run_validation(data, partial) ==
    IF FieldErrors(data, partial) # {} THEN "ValidationError"
    ELSE validate(data)

\* validated_data: the submitted fields, converted.
validated_data(data) ==
    [f \in DOMAIN data |->
        IF f = "ingredients"
        THEN [k \in DOMAIN data.ingredients |->
                 RecipeIngredientSerializer_data(data.ingredients[k])]
        ELSE data[f]]

\* Recipe.objects.create(**validated_data)
Recipe_create(d, cooking_time) ==
    [d EXCEPT !.Recipe = (d.nextId :> [cooking_time |-> cooking_time]) @@ @,
              !.nextId = @ + 1]

\* Mutant: recipe.tags.add(*tags_data), which keeps the previous tags.
tags_set_add(d, pk, tags_data) ==
    [d EXCEPT !.RecipeTags = @ \cup {<<pk, t>> : t \in Range(tags_data)}]

\* recipe.tags.set(tags_data)
tags_set(d, pk, tags_data) ==
    [d EXCEPT !.RecipeTags =
        {x \in @ : x[1] # pk} \cup {<<pk, t>> : t \in Range(tags_data)}]

\* IngredientQuantity.objects.filter(recipe_id=instance.id).delete()
quantity_delete(d, pk) ==
    [d EXCEPT !.RecipeIngredient = Filter(@, LAMBDA r : r.recipe # pk)]

\* UniqueConstraint(fields=('recipe', 'ingredient')): the INSERT of rows is
\* refused when two rows of the table would share recipe and ingredient.
UniqueRecipeIngredient(B) ==
    \A r \in DOMAIN B :
        /\ B[r] = 1
        /\ \A s \in DOMAIN B :
               (s.recipe = r.recipe /\ s.ingredient = r.ingredient) => s = r

\* Mutant: every row is stored with the amount of the first item.
create_update_first_amount(d, datas, pk) ==
    LET table == d.RecipeIngredient (+)
                 SeqToBag([k \in DOMAIN datas |->
                              [recipe |-> pk,
                               ingredient |-> datas[k].ingredient,
                               amount |-> datas[1].amount]])
    IN  IF \A r \in DOMAIN table :
               /\ table[r] = 1
               /\ \A q \in DOMAIN table :
                      (q.recipe = r.recipe /\ q.ingredient = r.ingredient) => q = r
        THEN [db |-> [d EXCEPT !.RecipeIngredient = table], exc |-> "none"]
        ELSE [db |-> d, exc |-> "IntegrityError"]

\* create_update: bulk_create of one row per item of datas.  It is one
\* INSERT: it stores every row or, on IntegrityError, none.
create_update(d, datas, pk) ==
    LET create_data ==
            [k \in DOMAIN datas |->
                [recipe |-> pk,
                 ingredient |-> datas[k].ingredient,
                 amount |-> datas[k].amount]]
        table == d.RecipeIngredient (+) SeqToBag(create_data)
    IN  IF UniqueRecipeIngredient(table)
        THEN [db |-> [d EXCEPT !.RecipeIngredient = table], exc |-> "none"]
        ELSE [db |-> d, exc |-> "IntegrityError"]

\* RecipeCreateUpdateSerializer.create
create(d, vd) ==
    LET pk == d.nextId
        d1 == Recipe_create(d, vd.cooking_time)
        d2 == tags_set(d1, pk, vd.tags)
    IN  create_update(d2, vd.ingredients, pk)

\* ModelSerializer.update: setattr of the remaining fields, then save().
super_update(d, pk, vd) ==
    IF "cooking_time" \in DOMAIN vd
    THEN [d EXCEPT !.Recipe[pk].cooking_time = vd.cooking_time]
    ELSE d

\* RecipeCreateUpdateSerializer.update
update(d, pk, vd) ==
    LET d1 == IF "tags" \in DOMAIN vd THEN tags_set(d, pk, vd.tags) ELSE d
        r  == IF "ingredients" \in DOMAIN vd
              THEN create_update(quantity_delete(d1, pk), vd.ingredients, pk)
              ELSE [db |-> d1, exc |-> "none"]
    IN  IF r.exc = "none"
        THEN [db |-> super_update(r.db, pk, vd), exc |-> "none"]
        ELSE r

(* ------------------------------ views.py ------------------------------ *)

\* on_delete=CASCADE of every foreign key to Recipe.
Recipe_delete(d, pk) ==
    [d EXCEPT
        !.Recipe = [p \in DOMAIN @ \ {pk} |-> @[p]],
        !.RecipeTags = {x \in @ : x[1] # pk},
        !.RecipeIngredient = Filter(@, LAMBDA r : r.recipe # pk),
        !.Favourite = Filter(@, LAMBDA r : r[2] # pk),
        !.ShoppingCart = Filter(@, LAMBDA r : r[2] # pk)]

\* The response to a recipe write: the status and the store it leaves.
CreateResponse(d, data) ==
    LET v == run_validation(data, FALSE)
        r == create(d, validated_data(data))
    IN  IF v = "ValidationError" THEN [db |-> d, status |-> 400]
        ELSE IF v = "TypeError" THEN [db |-> d, status |-> 500]
        ELSE IF r.exc = "none" THEN [db |-> r.db, status |-> 201]
        ELSE [db |-> r.db, status |-> 500]

UpdateResponse(d, pk, data) ==
    LET v == run_validation(data, TRUE)
        r == update(d, pk, validated_data(data))
    IN  IF ~RecipeExists(d, pk) THEN [db |-> d, status |-> 404]
        ELSE IF v = "ValidationError" THEN [db |-> d, status |-> 400]
        ELSE IF v = "TypeError" THEN [db |-> d, status |-> 500]
        ELSE IF r.exc = "none" THEN [db |-> r.db, status |-> 200]
        ELSE [db |-> r.db, status |-> 500]

\* A request travels to its handler, is handled in one step, and its response
\* is delivered before the next request is taken up.
Idle == [phase |-> "idle", method |-> "-", op |-> "none", user |-> "-",
         pk |-> 0, data |-> <<>>, status |-> 0, body |-> <<>>]

Request(method, op, user, pk, data) ==
    /\ msg' = [phase |-> "request", method |-> method, op |-> op,
               user |-> user, pk |-> pk, data |-> data, status |-> 0,
               body |-> <<>>]
    /\ UNCHANGED db

Pending(op) == msg.phase = "request" /\ msg.op = op

RespondBody(d, status, body) ==
    /\ db' = d
    /\ msg' = [msg EXCEPT !.phase = "response", !.status = status,
                          !.body = body]

Respond(d, status) == RespondBody(d, status, <<>>)

Deliver ==
    /\ msg.phase = "response"
    /\ msg' = Idle
    /\ UNCHANGED db

\* POST /recipes/ arrives (the pk counter is capped at the ids of the model).
PostRecipe(ids, reqs) ==
    /\ msg.phase = "idle"
    /\ db.nextId \in ids
    /\ \E data \in reqs : Request("POST", "create", "-", db.nextId, data)

\* ModelViewSet.create with RecipeCreateUpdateSerializer
CreateRecipe ==
    /\ Pending("create")
    /\ LET rsp == CreateResponse(db, msg.data)
       IN  Respond(rsp.db, rsp.status)

\* PATCH /recipes/{pk}/ arrives
PatchRecipe(ids, reqs) ==
    /\ msg.phase = "idle"
    /\ \E pk \in ids, data \in reqs : Request("PATCH", "update", "-", pk, data)

\* ModelViewSet.partial_update with RecipeCreateUpdateSerializer
UpdateRecipe ==
    /\ Pending("update")
    /\ LET rsp == UpdateResponse(db, msg.pk, msg.data)
       IN  Respond(rsp.db, rsp.status)

\* DELETE /recipes/{pk}/ arrives
DeleteRecipe(ids) ==
    /\ msg.phase = "idle"
    /\ \E pk \in ids : Request("DELETE", "destroy", "-", pk, <<>>)

\* ModelViewSet.destroy
DestroyRecipe ==
    /\ Pending("destroy")
    /\ IF RecipeExists(db, msg.pk)
       THEN Respond(Recipe_delete(db, msg.pk), 204)
       ELSE Respond(db, 404)

(* ----------------- views.py: favourites, cart, follows ---------------- *)

\* model.objects.filter(user=user, recipe__id=pk)
Membership(table, user, pk) == Filter(table, LAMBDA r : r = <<user, pk>>)

\* model.objects.create(...) under the table's UniqueConstraint on the pair.
objects_create(table, row) ==
    IF row \in DOMAIN table
    THEN [table |-> table, exc |-> "IntegrityError"]
    ELSE [table |-> table (+) SetToBag({row}), exc |-> "none"]

\* Mutant: no exists() check before the insert.
post_method_unchecked(d, model, user, pk) ==
    LET r == objects_create(d[model], <<user, pk>>)
    IN  IF ~RecipeExists(d, pk)
        THEN [db |-> d, status |-> 404]
        ELSE IF r.exc = "none"
        THEN [db |-> [d EXCEPT ![model] = r.table], status |-> 201]
        ELSE [db |-> d, status |-> 500]

\* RecipeViewSet.post_method
post_method(d, model, user, pk) ==
    LET r == objects_create(d[model], <<user, pk>>)
    IN  IF Membership(d[model], user, pk) # EmptyBag
        THEN [db |-> d, status |-> 400]
        ELSE IF ~RecipeExists(d, pk)        \* get_object_or_404(Recipe, id=pk)
        THEN [db |-> d, status |-> 404]
        ELSE IF r.exc = "none"
        THEN [db |-> [d EXCEPT ![model] = r.table], status |-> 201]
        ELSE [db |-> d, status |-> 500]

\* Mutant: the queryset is filtered by user only.
delete_method_by_user(d, model, user, pk) ==
    IF Membership(d[model], user, pk) # EmptyBag
    THEN [db |-> [d EXCEPT ![model] = Filter(@, LAMBDA r : r[1] # user)],
          status |-> 204]
    ELSE [db |-> d, status |-> 400]

\* RecipeViewSet.delete_method
delete_method(d, model, user, pk) ==
    IF Membership(d[model], user, pk) # EmptyBag
    THEN [db |-> [d EXCEPT ![model] = Filter(@, LAMBDA r : r # <<user, pk>>)],
          status |-> 204]
    ELSE [db |-> d, status |-> 400]

\* Mutant: no user == author check before the insert.
subscribe_self_allowed(d, method, user, id) ==
    LET follow_search == Membership(d.Follow, user, id)
        r == objects_create(d.Follow, <<user, id>>)
    IN  IF id \notin Users
        THEN [db |-> d, status |-> 404]
        ELSE IF method = "POST"
        THEN IF follow_search # EmptyBag THEN [db |-> d, status |-> 400]
             ELSE IF r.exc = "none"
             THEN [db |-> [d EXCEPT !.Follow = r.table], status |-> 201]
             ELSE [db |-> d, status |-> 500]
        ELSE IF follow_search = EmptyBag THEN [db |-> d, status |-> 400]
        ELSE [db |-> [d EXCEPT !.Follow = Filter(@, LAMBDA x : x # <<user, id>>)],
              status |-> 204]

\* CurrentUserViewSet.subscribe
subscribe(d, method, user, id) ==
    LET follow_search == Membership(d.Follow, user, id)
        r == objects_create(d.Follow, <<user, id>>)
    IN  IF id \notin Users                  \* get_object_or_404(User, pk=id)
        THEN [db |-> d, status |-> 404]
        ELSE IF method = "POST"
        THEN IF user = id THEN [db |-> d, status |-> 400]
             ELSE IF follow_search # EmptyBag THEN [db |-> d, status |-> 400]
             ELSE IF r.exc = "none"
             THEN [db |-> [d EXCEPT !.Follow = r.table], status |-> 201]
             ELSE [db |-> d, status |-> 500]
        ELSE IF follow_search = EmptyBag THEN [db |-> d, status |-> 400]
        ELSE [db |-> [d EXCEPT !.Follow = Filter(@, LAMBDA x : x # <<user, id>>)],
              status |-> 204]

Methods == {"POST", "DELETE"}

\* POST or DELETE /recipes/{pk}/favorite/ arrives
FavoriteRequest(ids) ==
    /\ msg.phase = "idle"
    /\ \E m \in Methods, u \in Users, pk \in ids :
           Request(m, "favorite", u, pk, <<>>)

\* RecipeViewSet.favorite
Favorite ==
    /\ Pending("favorite")
    /\ LET r == IF msg.method = "POST"
                THEN post_method(db, "Favourite", msg.user, msg.pk)
                ELSE delete_method(db, "Favourite", msg.user, msg.pk)
       IN  Respond(r.db, r.status)

\* POST or DELETE /recipes/{pk}/shopping_cart/ arrives
ShoppingCartRequest(ids) ==
    /\ msg.phase = "idle"
    /\ \E m \in Methods, u \in Users, pk \in ids :
           Request(m, "shopping_cart", u, pk, <<>>)

\* RecipeViewSet.shopping_cart
Shopping_Cart ==
    /\ Pending("shopping_cart")
    /\ LET r == IF msg.method = "POST"
                THEN post_method(db, "ShoppingCart", msg.user, msg.pk)
                ELSE delete_method(db, "ShoppingCart", msg.user, msg.pk)
       IN  Respond(r.db, r.status)

\* POST or DELETE /users/{id}/subscribe/ arrives
SubscribeRequest ==
    /\ msg.phase = "idle"
    /\ \E m \in Methods, u \in Users, id \in Users \cup {NoUser} :
           Request(m, "subscribe", u, id, <<>>)

\* CurrentUserViewSet.subscribe
Subscribe ==
    /\ Pending("subscribe")
    /\ LET r == subscribe(db, msg.method, msg.user, msg.pk)
       IN  Respond(r.db, r.status)

(* ------------------- views.py: download_shopping_cart ----------------- *)

\* RecipeIngredient.objects.filter(recipe__shopping_cart__user=user): the
\* join of RecipeIngredient with the user's ShoppingCart rows, a row counted
\* once per cart row it joins.
CartJoin(d, user) ==
    LET copies(r) == d.RecipeIngredient[r]
                     * CopiesIn(<<user, r.recipe>>, d.ShoppingCart)
    IN  [r \in {x \in DOMAIN d.RecipeIngredient : copies(x) > 0} |-> copies(r)]

\* Sum('amount') over the rows of a bag.
RECURSIVE SumAmount(_)
SumAmount(B) ==
    IF DOMAIN B = {} THEN 0
    ELSE LET r == CHOOSE x \in DOMAIN B : TRUE
         IN  r.amount * B[r] + SumAmount([x \in DOMAIN B \ {r} |-> B[x]])

\* .values('ingredient__name', 'ingredient__measurement_unit')
\* .annotate(total=Sum('amount')): one dict per (name, unit) group.
values_annotate(J) ==
    LET key(r) == <<IngredientRow[r.ingredient].name,
                    IngredientRow[r.ingredient].measurement_unit>>
    IN  {[ingredient__name |-> k[1],
          ingredient__measurement_unit |-> k[2],
          total |-> SumAmount(Filter(J, LAMBDA r : key(r) = k))] :
            k \in {key(r) : r \in DOMAIN J}}

\* The keys the rendering loop reads from each item.
RenderKeys == {"name", "total", "measurement_unit"}

\* The loop over the items, in the order the database returned them.
buy_list_text(items) ==
    [k \in DOMAIN items |->
        [number |-> k,
         name |-> items[k]["name"],
         total |-> items[k]["total"],
         measurement_unit |-> items[k]["measurement_unit"]]]

\* The orders in which the database may return the groups (no ORDER BY).
Orderings(S) == {s \in [1..Cardinality(S) -> S] : Range(s) = S}

\* GET /recipes/download_shopping_cart/ arrives
DownloadRequest ==
    /\ msg.phase = "idle"
    /\ \E u \in Users : Request("GET", "download_shopping_cart", u, 0, <<>>)

\* RecipeViewSet.download_shopping_cart
DownloadShoppingCart ==
    /\ Pending("download_shopping_cart")
    /\ LET ingredients == values_annotate(CartJoin(db, msg.user))
       IN  IF \E item \in ingredients : ~(RenderKeys \subseteq DOMAIN item)
           THEN Respond(db, 500)            \* KeyError: 'name'
           ELSE \E items \in Orderings(ingredients) :
                    RespondBody(db, 200, buy_list_text(items))

(* --------------------------- specifications --------------------------- *)

Init ==
    /\ db = EmptyDb
    /\ msg = Idle

\* Recipe writes: every create / update body over the request bounds.
Next ==
    \/ PostRecipe(RecipeIds, WriteRequests)
    \/ CreateRecipe
    \/ PatchRecipe(RecipeIds, WriteRequests)
    \/ UpdateRecipe
    \/ DeleteRecipe(RecipeIds)
    \/ DestroyRecipe
    \/ Deliver

Spec == Init /\ [][Next]_vars

\* One well-formed recipe body, for the specifications about memberships.
PlainRequests ==
    RequestData({<<"t1">>},
                {<<[id |-> RawId("int", 1), amount |-> 1]>>},
                {1})

\* Favourites, shopping cart and follows, over recipes that come and go.
NextMember ==
    \/ PostRecipe(CartRecipeIds, PlainRequests)
    \/ CreateRecipe
    \/ DeleteRecipe(CartRecipeIds)
    \/ DestroyRecipe
    \/ FavoriteRequest(CartRecipeIds)
    \/ Favorite
    \/ ShoppingCartRequest(CartRecipeIds)
    \/ Shopping_Cart
    \/ SubscribeRequest
    \/ Subscribe
    \/ Deliver

SpecMember == Init /\ [][NextMember]_vars

\* Well-formed recipe bodies over every ingredient, for the shopping list:
\* ingredients in ascending id order, none repeated, amounts positive.
CartRawIds == {RawId("int", i) : i \in Ingredients}
CartLists ==
    {s \in SeqsUpTo([id : CartRawIds, amount : Amounts \ {0}], MaxLen) :
        \A j, k \in DOMAIN s : j < k => s[j].id.val < s[k].id.val}
CartRequests ==
    {r \in RequestData({<<"t1">>}, CartLists, {1}) :
        DOMAIN r = {"tags", "ingredients", "cooking_time"}}

\* The shopping cart and its download, over recipes that are written.
NextCart ==
    \/ PostRecipe(CartRecipeIds, CartRequests)
    \/ CreateRecipe
    \/ PatchRecipe(CartRecipeIds, CartRequests)
    \/ UpdateRecipe
    \/ DeleteRecipe(CartRecipeIds)
    \/ DestroyRecipe
    \/ ShoppingCartRequest(CartRecipeIds)
    \/ Shopping_Cart
    \/ DownloadRequest
    \/ DownloadShoppingCart
    \/ Deliver

SpecCart == Init /\ [][NextCart]_vars

(* -------------------- two requests handled at once -------------------- *)

\* Two worker processes serve one request each.  No handler opens a
\* transaction or takes a lock, so each ORM call is its own committed
\* statement and the calls of the two requests interleave freely.  While the
\* two are being served msg holds, per worker, the request, the position of
\* its handler (pc), the Recipe instance it loaded and its response status,
\* and db0, the store as it was when the two requests arrived.
Workers == {1, 2}

Worker(pc, user, data) ==
    [pc |-> pc, user |-> user, data |-> data, instance |-> <<>>, status |-> 0]

Serving(op, w, pc) ==
    /\ msg.phase = "workers"
    /\ msg.op = op
    /\ msg.w[w].pc = pc

\* Worker w moves on: the store becomes d and the worker's record changes.
Step(w, d, worker) ==
    /\ db' = d
    /\ msg' = [msg EXCEPT !.w[w] = worker]

Done(worker, status) == [worker EXCEPT !.pc = "done", !.status = status]

\* Two PATCH /recipes/{pk}/ requests for the same recipe arrive together.
PatchRecipeTwice(ids, reqs) ==
    /\ msg.phase = "idle"
    /\ \E pk \in ids, d1 \in reqs, d2 \in reqs :
           /\ msg' = [phase |-> "workers", op |-> "update", pk |-> pk,
                      db0 |-> db,
                      w |-> <<Worker("get_object", "-", d1),
                              Worker("get_object", "-", d2)>>]
           /\ UNCHANGED db

\* UpdateModelMixin.update: get_object(), then serializer.is_valid().
UpdateGetObject(w) ==
    /\ Serving("update", w, "get_object")
    /\ LET me == msg.w[w]
           v == run_validation(me.data, TRUE)
       IN  IF ~RecipeExists(db, msg.pk) THEN Step(w, db, Done(me, 404))
           ELSE IF v = "ValidationError" THEN Step(w, db, Done(me, 400))
           ELSE IF v = "TypeError" THEN Step(w, db, Done(me, 500))
           ELSE Step(w, db, [me EXCEPT !.pc = "tags",
                                       !.instance = db.Recipe[msg.pk]])

\* update: instance.tags.set(tags_data), when the request carries tags.
UpdateSetTags(w) ==
    /\ Serving("update", w, "tags")
    /\ LET me == msg.w[w]
           vd == validated_data(me.data)
       IN  Step(w,
                IF "tags" \in DOMAIN vd THEN tags_set(db, msg.pk, vd.tags)
                ELSE db,
                [me EXCEPT !.pc = IF "ingredients" \in DOMAIN vd
                                  THEN "delete" ELSE "save"])

\* update: quantity.delete()
UpdateDeleteRows(w) ==
    /\ Serving("update", w, "delete")
    /\ Step(w, quantity_delete(db, msg.pk), [msg.w[w] EXCEPT !.pc = "insert"])

\* update: self.create_update(ingredients_data, IngredientQuantity, instance)
UpdateInsertRows(w) ==
    /\ Serving("update", w, "insert")
    /\ LET me == msg.w[w]
           r == create_update(db, validated_data(me.data).ingredients, msg.pk)
       IN  IF r.exc = "none"
           THEN Step(w, r.db, [me EXCEPT !.pc = "save"])
           ELSE Step(w, r.db, Done(me, 500))

\* Model.save() of the instance loaded by get_object: every field of the
\* row is written from the instance, with the validated fields set on it.
instance_save(d, pk, instance, vd) ==
    IF ~RecipeExists(d, pk) THEN d
    ELSE [d EXCEPT !.Recipe[pk] =
             IF "cooking_time" \in DOMAIN vd
             THEN [instance EXCEPT !.cooking_time = vd.cooking_time]
             ELSE instance]

\* update: return super().update(instance, validated_data)
UpdateSave(w) ==
    /\ Serving("update", w, "save")
    /\ LET me == msg.w[w]
       IN  Step(w,
                instance_save(db, msg.pk, me.instance, validated_data(me.data)),
                Done(me, 200))

\* Two POST /recipes/{pk}/shopping_cart/ requests arrive together.
ShoppingCartTwice(ids) ==
    /\ msg.phase = "idle"
    /\ \E pk \in ids, u1 \in Users, u2 \in Users :
           /\ msg' = [phase |-> "workers", op |-> "shopping_cart", pk |-> pk,
                      db0 |-> db,
                      w |-> <<Worker("exists", u1, <<>>),
                              Worker("exists", u2, <<>>)>>]
           /\ UNCHANGED db

\* post_method: model.objects.filter(user=user, recipe__id=pk).exists()
CartExists(w) ==
    /\ Serving("shopping_cart", w, "exists")
    /\ LET me == msg.w[w]
       IN  IF Membership(db.ShoppingCart, me.user, msg.pk) # EmptyBag
           THEN Step(w, db, Done(me, 400))
           ELSE Step(w, db, [me EXCEPT !.pc = "get_object"])

\* post_method: recipe = get_object_or_404(Recipe, id=pk)
CartGetObject(w) ==
    /\ Serving("shopping_cart", w, "get_object")
    /\ LET me == msg.w[w]
       IN  IF ~RecipeExists(db, msg.pk) THEN Step(w, db, Done(me, 404))
           ELSE Step(w, db, [me EXCEPT !.pc = "create"])

\* post_method: model.objects.create(user=user, recipe=recipe)
CartCreate(w) ==
    /\ Serving("shopping_cart", w, "create")
    /\ LET me == msg.w[w]
           r == objects_create(db.ShoppingCart, <<me.user, msg.pk>>)
       IN  IF r.exc = "none"
           THEN Step(w, [db EXCEPT !.ShoppingCart = r.table], Done(me, 201))
           ELSE Step(w, db, Done(me, 500))     \* IntegrityError, not caught

BothDone ==
    /\ msg.phase = "workers"
    /\ \A w \in Workers : msg.w[w].pc = "done"

\* Both responses are delivered.
DeliverBoth ==
    /\ BothDone
    /\ msg' = Idle
    /\ UNCHANGED db

\* Update bodies that pass validation: one or two distinct ingredients with
\* positive amounts and a cooking time, with or without a tag list.
ConcLists == {s \in CartLists : s # <<>> /\ \A k \in DOMAIN s : s[k].id.val < 3}
ConcRequests ==
    {r \in RequestData({<<"t2">>}, ConcLists, {2}) :
        {"ingredients", "cooking_time"} \subseteq DOMAIN r}

\* A recipe is created, then pairs of requests are served at once.
NextConc ==
    \/ PostRecipe(RecipeIds, PlainRequests)
    \/ CreateRecipe
    \/ Deliver
    \/ PatchRecipeTwice(RecipeIds, ConcRequests)
    \/ \E w \in Workers : UpdateGetObject(w)
    \/ \E w \in Workers : UpdateSetTags(w)
    \/ \E w \in Workers : UpdateDeleteRows(w)
    \/ \E w \in Workers : UpdateInsertRows(w)
    \/ \E w \in Workers : UpdateSave(w)
    \/ ShoppingCartTwice(RecipeIds)
    \/ \E w \in Workers : CartExists(w)
    \/ \E w \in Workers : CartGetObject(w)
    \/ \E w \in Workers : CartCreate(w)
    \/ DeliverBoth

SpecConc == Init /\ [][NextConc]_vars

(* ------------------------- claims: recipe writes ---------------------- *)

Handled(op) == msg.phase = "response" /\ msg.op = op

\* A recipe write that reaches the serializer: a create, or an update of a
\* recipe that exists.
WritePending ==
    /\ msg.phase = "request"
    /\ \/ msg.op = "create"
       \/ msg.op = "update" /\ RecipeExists(db, msg.pk)

WriteSucceeded ==
    \/ Handled("create") /\ msg.status = 201
    \/ Handled("update") /\ msg.status = 200

\* The (ingredient id, amount) pairs of a submitted ingredient list.
SubmittedPairs(data) ==
    {<<data.ingredients[k].id.val, data.ingredients[k].amount>> :
        k \in DOMAIN data.ingredients}

\* The (ingredient id, amount) pairs of the stored rows of recipe pk.
StoredPairs(d, pk) ==
    {<<r.ingredient, r.amount>> : r \in DOMAIN QuantityOf(d, pk)}

\* C1: after a create request, whatever its outcome, either the recipe row,
\* its submitted tags and every submitted ingredient row exist, or none of
\* them does.
C1_CreateAllOrNothing ==
    Handled("create") =>
        \/ /\ ~RecipeExists(db, msg.pk)
           /\ TagsOf(db, msg.pk) = {}
           /\ QuantityOf(db, msg.pk) = EmptyBag
        \/ /\ RecipeExists(db, msg.pk)
           /\ TagsOf(db, msg.pk) = Range(msg.data.tags)
           /\ SubmittedPairs(msg.data) \subseteq StoredPairs(db, msg.pk)

EmptyList(data) ==
    \/ "tags" \in DOMAIN data /\ data.tags = <<>>
    \/ "ingredients" \in DOMAIN data /\ data.ingredients = <<>>

\* C2: a create or update whose tag list or ingredient list is empty is
\* answered 400 and leaves the store as it was.
C2_EmptyListRejected ==
    [][(WritePending /\ EmptyList(msg.data))
           => (msg'.status = 400 /\ db' = db)]_vars

RepeatedIngredient(data) ==
    /\ "ingredients" \in DOMAIN data
    /\ \E j, k \in DOMAIN data.ingredients :
           /\ j # k
           /\ data.ingredients[j].id.val = data.ingredients[k].id.val

\* No two stored rows share recipe and ingredient.
PairUnique(d) ==
    \A r \in DOMAIN d.RecipeIngredient :
        /\ d.RecipeIngredient[r] = 1
        /\ \A s \in DOMAIN d.RecipeIngredient :
               (s.recipe = r.recipe /\ s.ingredient = r.ingredient) => s = r

\* C3: a create or update in which an ingredient identifier occurs more than
\* once is answered 400 and leaves the store as it was, and no two stored
\* rows share recipe and ingredient.
C3_RepeatedIngredientRejected ==
    [][/\ PairUnique(db')
       /\ (WritePending /\ RepeatedIngredient(msg.data))
              => (msg'.status = 400 /\ db' = db)]_vars

StoredPositive(d) ==
    /\ \A pk \in DOMAIN d.Recipe : d.Recipe[pk].cooking_time >= 1
    /\ \A r \in DOMAIN d.RecipeIngredient : r.amount >= 1

CarriesNonPositive(data) ==
    \/ "cooking_time" \in DOMAIN data /\ data.cooking_time <= 0
    \/ /\ "ingredients" \in DOMAIN data
       /\ \E k \in DOMAIN data.ingredients : data.ingredients[k].amount <= 0

\* C4: every stored recipe has cooking_time >= 1 and every stored ingredient
\* row has amount >= 1; a write carrying a quantity <= 0 or a cooking time
\* <= 0 is answered 400 and changes nothing.
C4_PositiveQuantities ==
    [][/\ StoredPositive(db')
       /\ (WritePending /\ CarriesNonPositive(msg.data))
              => (msg'.status = 400 /\ db' = db)]_vars

C4_Witness ==
    /\ Handled("update")
    /\ msg.status = 400
    /\ CarriesNonPositive(msg.data)
    /\ RecipeExists(db, msg.pk)
    /\ QuantityOf(db, msg.pk) # EmptyBag

\* The stored rows of recipe pk are one row per entry of the submitted list,
\* with its identifier and amount, and nothing else.
RowsMatch(d, pk, data) ==
    /\ "ingredients" \in DOMAIN data
    /\ StoredPairs(d, pk) = SubmittedPairs(data)
    /\ BagCardinality(QuantityOf(d, pk)) = Len(data.ingredients)
    /\ Cardinality({p[1] : p \in StoredPairs(d, pk)}) = Len(data.ingredients)

\* C5: after every successful create or update the ingredient rows of the
\* recipe are exactly the submitted (id, amount) pairs: none extra, none
\* missing, none twice.
C5_RowsMatchSubmitted ==
    WriteSucceeded => RowsMatch(db, msg.pk, msg.data)

C5_Witness ==
    /\ Handled("update")
    /\ msg.status = 200
    /\ Len(msg.data.ingredients) = MaxLen
    /\ \E k \in DOMAIN msg.data.ingredients : msg.data.ingredients[k].id.kind = "str"

\* C6 as stated: after every successful update the tag set is the request's
\* tag list (nothing, when it carries none) and the rows are the request's.
C6_UpdateReplacesAll ==
    (Handled("update") /\ msg.status = 200) =>
        /\ TagsOf(db, msg.pk) =
               IF "tags" \in DOMAIN msg.data THEN Range(msg.data.tags) ELSE {}
        /\ RowsMatch(db, msg.pk, msg.data)

\* C6 amended: a successful update replaces the ingredient rows by the
\* request's list, and the tag set by the request's tag list when it carries
\* one; without a tag list the tag set stays as it was.
C6_UpdateReplaces ==
    [][(msg.phase = "request" /\ msg.op = "update" /\ msg'.status = 200) =>
          /\ TagsOf(db', msg.pk) =
                 IF "tags" \in DOMAIN msg.data THEN Range(msg.data.tags)
                 ELSE TagsOf(db, msg.pk)
          /\ RowsMatch(db', msg.pk, msg.data)]_vars

C6_Witness ==
    /\ Handled("update")
    /\ msg.status = 200
    /\ "tags" \notin DOMAIN msg.data
    /\ TagsOf(db, msg.pk) = {"t1"}
    /\ Len(msg.data.ingredients) = MaxLen

(* ------------------------ claims: shopping list ----------------------- *)

RECURSIVE SumOfAmounts(_)
SumOfAmounts(rows) ==
    IF rows = {} THEN 0
    ELSE LET r == CHOOSE x \in rows : TRUE
         IN  r.amount + SumOfAmounts(rows \ {r})

\* The rows of ingredient i in the recipes of user's shopping cart.
CartRowsOf(d, user, i) ==
    {r \in DOMAIN d.RecipeIngredient :
        /\ r.ingredient = i
        /\ RecipeExists(d, r.recipe)
        /\ <<user, r.recipe>> \in DOMAIN d.ShoppingCart}

\* C7: the downloaded shopping list of a user reports, for every ingredient
\* with a row in a recipe of the user's cart, the sum of its amounts over
\* those recipes, and nothing for an ingredient whose name and unit no cart
\* row carries.
C7_ListReportsCartSums ==
    Handled("download_shopping_cart") =>
        /\ msg.status = 200
        /\ \A i \in Ingredients :
               LET rows == CartRowsOf(db, msg.user, i)
                   mine == {k \in DOMAIN msg.body :
                               /\ msg.body[k].name = IngredientRow[i].name
                               /\ msg.body[k].measurement_unit =
                                      IngredientRow[i].measurement_unit}
               IN  IF rows # {}
                   THEN \E k \in mine : msg.body[k].total = SumOfAmounts(rows)
                   ELSE \A k \in mine :
                            \E j \in Ingredients :
                                /\ CartRowsOf(db, msg.user, j) # {}
                                /\ IngredientRow[j] = IngredientRow[i]

\* C8: the aggregation query of the download yields one group per
\* ingredient identity in the user's cart: Ingredient rows that share a name
\* are not merged.
C8_GroupPerIngredient ==
    Handled("download_shopping_cart") =>
        LET J == CartJoin(db, msg.user)
        IN  Cardinality(values_annotate(J))
                = Cardinality({r.ingredient : r \in DOMAIN J})

(* ------------------------- claims: memberships ------------------------ *)

MemberOps == {"favorite", "shopping_cart", "subscribe"}

TableOf(op) ==
    CASE op = "favorite" -> "Favourite"
      [] op = "shopping_cart" -> "ShoppingCart"
      [] op = "subscribe" -> "Follow"

MemberPending(method) ==
    /\ msg.phase = "request"
    /\ msg.method = method
    /\ msg.op \in MemberOps

Present(d) == <<msg.user, msg.pk>> \in DOMAIN d[TableOf(msg.op)]

PairsUnique(d) ==
    \A t \in {"Favourite", "ShoppingCart", "Follow"} :
        \A r \in DOMAIN d[t] : d[t][r] = 1

\* C9: every (user, recipe) pair is at most once in Favourite and in
\* ShoppingCart and every (user, author) pair at most once in Follow; a POST
\* for a pair already present is answered 400 and adds no row.
C9_PairsUnique ==
    [][/\ PairsUnique(db')
       /\ (MemberPending("POST") /\ Present(db))
              => (msg'.status = 400 /\ db' = db)]_vars

C9_Witness ==
    /\ Handled("shopping_cart")
    /\ msg.method = "POST"
    /\ msg.status = 400
    /\ <<msg.user, msg.pk>> \in DOMAIN db.ShoppingCart

\* C10: a DELETE of a membership that is not present is answered 400 and
\* leaves the store as it was; a DELETE of one that is present removes that
\* one row and leaves every other row of every table as it was.  (For a
\* follow, the author id names a user.)
C10_DeleteFrame ==
    [][(MemberPending("DELETE") /\ (msg.op = "subscribe" => msg.pk \in Users))
          => LET t == TableOf(msg.op)
                 row == <<msg.user, msg.pk>>
             IN  IF Present(db)
                 THEN /\ msg'.status = 204
                      /\ row \notin DOMAIN db'[t]
                      /\ \A r \in DOMAIN db[t] \ {row} :
                             r \in DOMAIN db'[t] /\ db'[t][r] = db[t][r]
                      /\ DOMAIN db'[t] \subseteq DOMAIN db[t]
                      /\ db' = [db EXCEPT ![t] = db'[t]]
                 ELSE msg'.status = 400 /\ db' = db]_vars

C10_Witness ==
    /\ Handled("favorite")
    /\ msg.method = "DELETE"
    /\ msg.status = 204
    /\ BagCardinality(db.Favourite) = 2
    /\ db.ShoppingCart # EmptyBag
    /\ db.Follow # EmptyBag

NoSelfFollow(d) == \A r \in DOMAIN d.Follow : r[1] # r[2]

\* C11: a subscribe POST in which the requesting user is the target author is
\* answered with an error and creates no row, and in every state no Follow
\* row has user = author.
C11_SelfFollowRejected ==
    [][/\ NoSelfFollow(db')
       /\ (Pending("subscribe") /\ msg.method = "POST" /\ msg.user = msg.pk)
              => (msg'.status = 400 /\ db' = db)]_vars

C11_Witness ==
    /\ Handled("subscribe")
    /\ msg.method = "POST"
    /\ msg.user = msg.pk
    /\ msg.status = 400
    /\ \E r \in DOMAIN db.Follow : r[1] = msg.user
    /\ \E r \in DOMAIN db.Follow : r[2] = msg.user

\* The recipe id or author id a membership request names does not exist.
NamesMissing(d) ==
    IF msg.op = "subscribe" THEN msg.pk \notin Users
    ELSE ~RecipeExists(d, msg.pk)

\* C12: a favorite, shopping-cart or subscribe request (POST or DELETE) that
\* names a recipe id or author id which does not exist is answered 404 and
\* leaves the store as it was.
C12_MissingIdNotFound ==
    [][(msg.phase = "request" /\ msg.op \in MemberOps /\ NamesMissing(db))
          => (msg'.status = 404 /\ db' = db)]_vars

(* ---------------------- claims: concurrent writers -------------------- *)

\* The store after the update of worker a, then that of worker b, each run
\* alone from the store the two requests found.
OneAfterTheOther(a, b) ==
    UpdateResponse(UpdateResponse(msg.db0, msg.pk, msg.w[a].data).db,
                   msg.pk, msg.w[b].data).db

\* Two updates of one recipe leave the tag set and the ingredient rows that
\* one of them, run alone after the other, leaves.
UpdatesSerialized ==
    (BothDone /\ msg.op = "update" /\ RecipeExists(msg.db0, msg.pk)) =>
        \E a, b \in Workers :
            /\ a # b
            /\ TagsOf(db, msg.pk) = TagsOf(OneAfterTheOther(a, b), msg.pk)
            /\ QuantityOf(db, msg.pk)
                   = QuantityOf(OneAfterTheOther(a, b), msg.pk)
            /\ QuantityOf(db, msg.pk) # EmptyBag

\* Two cart POSTs for one (user, recipe) pair that was not in the cart leave
\* one row; one is answered 201 and the other with the conflict error, 400.
CartPostsSerialized ==
    (/\ BothDone
     /\ msg.op = "shopping_cart"
     /\ msg.w[1].user = msg.w[2].user
     /\ RecipeExists(msg.db0, msg.pk)
     /\ <<msg.w[1].user, msg.pk>> \notin DOMAIN msg.db0.ShoppingCart) =>
        /\ CopiesIn(<<msg.w[1].user, msg.pk>>, db.ShoppingCart) = 1
        /\ {msg.w[w].status : w \in Workers} = {201, 400}

\* C13: simultaneous writers are serialized: two updates of the same recipe
\* whose steps interleave leave the tags and ingredient rows of one request
\* run alone after the other (no mixture, no union, no empty ingredient set),
\* and two POSTs adding the same (user, recipe) pair to a cart leave exactly
\* one row, the other request ending with the conflict error.
C13_WritersSerialized == UpdatesSerialized /\ CartPostsSerialized

====
